---- MODULE Spec2Model ----
(***************************************************************************)
(* Model of lib/browser.js: Tabbed_Browser (the admission gate) and        *)
(* Browser_Tab (one tab's load lifecycle), together with the part of the   *)
(* host browser (gBrowser) that the two objects call: the registered       *)
(* tabs-progress listeners and the open tabs.                              *)
(*                                                                         *)
(* A handler of the source is one action.  What a handler does is computed *)
(* by operators on a "world" record [tabs, host, hist, calls]: the         *)
(* Browser_Tab objects, the host browser, the history counters, and the    *)
(* calls the handler has made so far, in order.                            *)
(***************************************************************************)
EXTENDS Integers, Sequences, FiniteSets, TLC

\* ---------------------------------------------------------------- bounds
NTabs == 2          \* Browser_Tab objects that may be constructed
MaxGo == 2          \* go() invocations over the whole run
MaxStatus == 1      \* stop_status values are 0..MaxStatus
MaxRequests == 10   \* the capacity max_requests of the Tabbed_Browser is at most this

\* ------------------------------------------------------ program constants
CREATED == 0
LOADING == 1
DISPLAYED == 2
ERROR == 3
CLOSED == 4
NS_OK == 0          \* the status that _progress compares stop_status with
NULL == 0           \* null, for this.tab and this.listener (handles are >= 1)

Undefined == <<>>               \* a field never assigned (browser, error_code)
NoFunction == "null"            \* finally_f / catch_f not supplied
Function == "function"          \* finally_f / catch_f supplied

Tabs == 1..NTabs
StatusCodes == 0..MaxStatus
STATE_STOP == "STATE_STOP"
STATE_START == "STATE_START"
StateFlags == {{STATE_START, "STATE_IS_NETWORK"}, {STATE_STOP, "STATE_IS_NETWORK"}}

\* Faulty variant of Id: the host hands every Browser_Tab the same tabs.
Id_shared(s, k) == k

\* Listener objects and host tabs are numbered by the Browser_Tab and the
\* go() that made them: every addTab returns a tab the host never returned.
Id(s, k) == (s - 1) * MaxGo + k

Ids == 1..(NTabs * MaxGo)

\* What a caller-supplied callback does when it is invoked: nothing, close()
\* of the Browser_Tab, or letting the host deliver one more successful STOP
\* for the tab's pane before it returns.
Behaviours == {"noop", "close", "stop"}

\* Host calls made in the try block of _show, any of which may throw.
ThrowPoints == {"none", "addTabsProgressListener", "addTab", "getBrowserForTab"}

VARIABLES
    caller,         \* how the caller makes tabs and which callbacks it passes
    n_requests,     \* Tabbed_Browser.n_requests
    max_requests,   \* Tabbed_Browser.max_requests
    tabs,           \* tabs[s]: the fields of Browser_Tab s
    host,           \* the host browser: listeners, open tabs, call counts
    hist,           \* hist[s]: what was called on Browser_Tab s so far
    go_count,       \* go() invocations so far, on all Browser_Tab objects
    lastOp          \* the operation of the last step, its inputs and calls

vars == <<caller, n_requests, max_requests, tabs, host, hist, go_count, lastOp>>

\* ------------------------------------------------------- recorded calls
\* A call made by a handler: of function f, by Browser_Tab s, with argument
\* arg or handle id, made when the state field of s was st.
Call(s, f, arg, id, st) == [s |-> s, f |-> f, arg |-> arg, id |-> id, st |-> st]

Log(w, s, f, arg, id) ==
    [w EXCEPT !.calls = Append(@, Call(s, f, arg, id, w.tabs[s].state))]

\* ------------------------------------------------------------ host browser
getBrowserForTab(t) == <<"browser", t>>

addTabsProgressListener(h, l) == [h EXCEPT !.listeners = @ \cup {l}]

removeTabsProgressListener(h, l) ==
    [h EXCEPT !.listeners = @ \ {l}, !.unsubscribed[l] = @ + 1]

addTab(h, t) == [h EXCEPT !.tabs = @ \cup {t}]

removeTab(h, t) == [h EXCEPT !.tabs = @ \ {t}, !.destroyed[t] = @ + 1]

\* ---------------------------------------------------------- Tabbed_Browser
\* Faulty variant of the constructor: the count of requests starts below 0.
Tabbed_Browser_miscounting(max_requests_) ==
    [ n_requests |-> -1, max_requests |-> max_requests_ ]

\* The fields that the Tabbed_Browser constructor sets.
Tabbed_Browser(max_requests_) ==
    [ n_requests |-> 0, max_requests |-> max_requests_ ]

\* Faulty variant of available: a full gate still has a slot.
available_when_full(n, max) == n <= max

\* Tabbed_Browser.prototype.available
available(n, max) == n < max

\* ------------------------------------------------------------ Browser_Tab
\* JavaScript truthiness of the leave_open field.
ToBoolean(v) == v = "true"

\* The constructor's default: new Browser_Tab( parent, leave_open ) called
\* with nargs arguments.
leave_open_default(nargs, leave_open) == IF nargs >= 2 THEN leave_open ELSE "true"

Browser_Tab(nargs, leave_open) ==
    [ made       |-> TRUE,
      leave_open |-> leave_open_default(nargs, leave_open),
      tab        |-> NULL,
      listener   |-> NULL,
      browser    |-> Undefined,
      error_code |-> Undefined,
      finally_f  |-> NoFunction,
      catch_f    |-> NoFunction,
      state      |-> CREATED ]

\* Tabbed_Browser.prototype.make_tab( leave_open ): arg is "absent" when the
\* caller passes nothing, and the constructor is then handed undefined.
make_tab(arg) == Browser_Tab(2, IF arg = "absent" THEN "undefined" ELSE arg)

in_initial_state(t) == t.state = CREATED

\* Faulty variants of in_final_state: DISPLAYED not final; CLOSED not final.
in_final_state_after_displayed(t) == t.state > DISPLAYED

in_final_state_without_closed(t) == t.state = DISPLAYED \/ t.state = ERROR

in_final_state(t) == t.state >= DISPLAYED

\* Faulty variants of close.  The first releases what the fields hold on every
\* call and leaves the fields as they are; the second removes the listener
\* from the host and keeps the reference to it.
close_unguarded(w, s) ==
    LET l  == w.tabs[s].listener
        t  == w.tabs[s].tab
        w0 == [w EXCEPT !.hist[s].closed = TRUE]
        w1 == IF l # NULL
              THEN [Log(w0, s, "removeTabsProgressListener", "", l) EXCEPT
                       !.host = removeTabsProgressListener(@, l)]
              ELSE w0
        w2 == IF t # NULL /\ ~ToBoolean(w1.tabs[s].leave_open)
              THEN [Log(w1, s, "removeTab", "", t) EXCEPT !.host = removeTab(@, t)]
              ELSE w1
    IN  [w2 EXCEPT !.tabs[s].state = CLOSED]

close_keeps_listener(w, s) ==
    IF w.tabs[s].state = CLOSED
    THEN [w EXCEPT !.hist[s].closed = TRUE]
    ELSE LET l  == w.tabs[s].listener
             t  == w.tabs[s].tab
             w0 == [w EXCEPT !.hist[s].closed = TRUE]
             w1 == IF l # NULL
                   THEN [Log(w0, s, "removeTabsProgressListener", "", l) EXCEPT
                            !.host = removeTabsProgressListener(@, l)]
                   ELSE w0
             w2 == IF t # NULL
                   THEN [(IF ~ToBoolean(w1.tabs[s].leave_open)
                          THEN [Log(w1, s, "removeTab", "", t) EXCEPT
                                   !.host = removeTab(@, t)]
                          ELSE w1)
                            EXCEPT !.tabs[s].tab = NULL]
                   ELSE w1
         IN  [w2 EXCEPT !.tabs[s].state = CLOSED]

\* Browser_Tab.prototype.close
close(w, s) ==
    IF w.tabs[s].state = CLOSED
    THEN [w EXCEPT !.hist[s].closed = TRUE]
    ELSE LET l  == w.tabs[s].listener
             t  == w.tabs[s].tab
             w0 == [w EXCEPT !.hist[s].closed = TRUE]
             w1 == IF l # NULL
                   THEN [Log(w0, s, "removeTabsProgressListener", "", l) EXCEPT
                            !.host = removeTabsProgressListener(@, l),
                            !.tabs[s].listener = NULL]
                   ELSE w0
             w2 == IF t # NULL
                   THEN [(IF ~ToBoolean(w1.tabs[s].leave_open)
                          THEN [Log(w1, s, "removeTab", "", t) EXCEPT
                                   !.host = removeTab(@, t)]
                          ELSE w1)
                            EXCEPT !.tabs[s].tab = NULL]
                   ELSE w1
         IN  [w2 EXCEPT !.tabs[s].state = CLOSED]

\* Faulty variants of the filters of _progress: no filter on the tab; the
\* filter on the tab inverted; any flag taken for STATE_STOP; failure taken
\* for success.
other_tab_unfiltered(t, browser) == FALSE

other_tab_inverted(t, browser) == t.browser = browser

is_stop_any_flag(state) == state # {}

success_inverted(stop_status) == stop_status # NS_OK

\* Faulty variant: every status is taken for a failure.
success_never(stop_status) == FALSE

\* The filters of _progress on the tab and on the kind of event.
other_tab(t, browser) == t.browser # browser

is_stop(state) == STATE_STOP \in state

\* var success = (stop_status == 0 )
success(stop_status) == stop_status = NS_OK

\* Invocation of a caller-supplied function, when there is one.
invoke(w, s, f, arg) ==
    IF w.tabs[s][f] = NoFunction
    THEN w
    ELSE [Log(w, s, f, arg, 0) EXCEPT
            !.hist[s].n_finally = IF f = "finally_f" THEN @ + 1 ELSE @]

\* Faulty variant of _progress: finally_f is called before the state is
\* assigned.
progress_notify_first(w, s, browser, state, stop_status) ==
    IF in_final_state(w.tabs[s]) THEN w
    ELSE IF other_tab(w.tabs[s], browser) THEN w
    ELSE IF ~is_stop(state) THEN w
    ELSE LET w0 == [w EXCEPT !.hist[s].stop_failed =
                                IF stop_status # NS_OK THEN <<stop_status>> ELSE @]
             w1 == invoke(w0, s, "finally_f",
                          IF success(stop_status) THEN "true" ELSE "false")
         IN  IF success(stop_status)
             THEN [w1 EXCEPT !.tabs[s].state = DISPLAYED]
             ELSE [w1 EXCEPT !.tabs[s].state = ERROR,
                             !.tabs[s].error_code = <<stop_status>>]

\* Browser_Tab.prototype._progress, up to and including the call of finally_f
\* (the body of finally_f is run by the caller of this operator).
progress(w, s, browser, state, stop_status) ==
    IF in_final_state(w.tabs[s]) THEN w
    ELSE IF other_tab(w.tabs[s], browser) THEN w
    ELSE IF ~is_stop(state) THEN w
    ELSE LET w0 == [w EXCEPT !.hist[s].stop_failed =
                                IF stop_status # NS_OK THEN <<stop_status>> ELSE @]
             w1 == IF success(stop_status)
                   THEN [w0 EXCEPT !.tabs[s].state = DISPLAYED]
                   ELSE [w0 EXCEPT !.tabs[s].state = ERROR,
                                   !.tabs[s].error_code = <<stop_status>>]
         IN  invoke(w1, s, "finally_f", IF success(stop_status) THEN "true" ELSE "false")

\* The body of a callback of Browser_Tab s that has just been invoked.
body(w, s, beh, pane) ==
    CASE beh = "noop"  -> w
      [] beh = "close" -> close(w, s)
      [] beh = "stop"  -> progress(w, s, pane, {STATE_STOP}, NS_OK)

\* f is invoked (if supplied) and its body runs.
call(w, s, f, arg, beh, pane) ==
    IF w.tabs[s][f] = NoFunction THEN w ELSE body(invoke(w, s, f, arg), s, beh, pane)

\* _progress as the host calls it, the body of finally_f included.
_progress(w, s, browser, state, stop_status, beh) ==
    LET w1 == progress(w, s, browser, state, stop_status)
    IN  IF Len(w1.calls) > Len(w.calls) THEN body(w1, s, beh, browser) ELSE w1

\* Faulty variant of the catch block: finally_f is called before catch_f.
show_catch_finally_first(w, s, cbeh, fbeh, pane) ==
    LET w1 == [w EXCEPT !.tabs[s].state = ERROR, !.hist[s].setup_failed = TRUE]
        w2 == Log(w1, s, "reportError", "e", 0)
        w3 == call(w2, s, "finally_f", "false", fbeh, pane)
    IN  call(w3, s, "catch_f", "e", cbeh, pane)

\* The catch block of _show.
show_catch(w, s, cbeh, fbeh, pane) ==
    LET w1 == [w EXCEPT !.tabs[s].state = ERROR, !.hist[s].setup_failed = TRUE]
        w2 == Log(w1, s, "reportError", "e", 0)
        w3 == call(w2, s, "catch_f", "e", cbeh, pane)
    IN  call(w3, s, "finally_f", "false", fbeh, pane)

\* Browser_Tab.prototype._show.  id numbers the listener object made here and
\* the tab the host makes; throwAt is the host call that throws, if any;
\* immediate is <<status>> for a STOP that the host delivers for the new tab
\* while addTab runs, or <<>> when it delivers none.
_show(w, s, id, throwAt, immediate, cbeh, fbeh) ==
    LET pane == getBrowserForTab(id)
        w1 == [w EXCEPT !.tabs[s].listener = id]
    IN  IF throwAt = "addTabsProgressListener"
        THEN show_catch(Log(w1, s, "addTabsProgressListener", "throws", id),
                        s, cbeh, fbeh, pane)
        ELSE
        LET w2 == [Log(w1, s, "addTabsProgressListener", "", id) EXCEPT
                      !.host = addTabsProgressListener(@, id),
                      !.hist[s].subs = @ \cup {id}]
        IN  IF throwAt = "addTab"
            THEN show_catch(Log(w2, s, "addTab", "throws", id), s, cbeh, fbeh, pane)
            ELSE
            LET w3 == [Log(w2, s, "addTab", "", id) EXCEPT !.host = addTab(@, id)]
                w4 == IF immediate = <<>>
                      THEN w3
                      ELSE _progress(w3, s, pane, {STATE_STOP}, immediate[1], fbeh)
                w5 == [w4 EXCEPT !.tabs[s].tab = id]
            IN  IF throwAt = "getBrowserForTab"
                THEN show_catch(Log(w5, s, "getBrowserForTab", "throws", id),
                                s, cbeh, fbeh, pane)
                ELSE [Log(w5, s, "getBrowserForTab", "", id) EXCEPT
                         !.tabs[s].browser = pane]

\* Faulty variants of go: the tab is marked LOADING before setup; the state is
\* reset for the new load.
go_sets_loading(w, s, finally_f, catch_f, id, throwAt, immediate, cbeh, fbeh) ==
    LET w1 == [w EXCEPT !.tabs[s].finally_f = finally_f, !.tabs[s].catch_f = catch_f,
                        !.tabs[s].state = LOADING]
    IN  _show(w1, s, id, throwAt, immediate, cbeh, fbeh)

go_resets_state(w, s, finally_f, catch_f, id, throwAt, immediate, cbeh, fbeh) ==
    LET w1 == [w EXCEPT !.tabs[s].finally_f = finally_f, !.tabs[s].catch_f = catch_f,
                        !.tabs[s].state = CREATED]
    IN  _show(w1, s, id, throwAt, immediate, cbeh, fbeh)

\* The go function of the action object that Browser_Tab.prototype.load returns.
go(w, s, finally_f, catch_f, id, throwAt, immediate, cbeh, fbeh) ==
    LET w1 == [w EXCEPT !.tabs[s].finally_f = finally_f, !.tabs[s].catch_f = catch_f]
    IN  _show(w1, s, id, throwAt, immediate, cbeh, fbeh)

\* One progress event of the host: onStateChange of the listeners, that is
\* _progress of every Browser_Tab from s on that ever gave the host a listener
\* (an event scheduled before a listener was removed is still delivered).
RECURSIVE notify(_, _, _, _, _, _)
notify(w, s, browser, state, stop_status, beh) ==
    IF s > NTabs
    THEN w
    ELSE notify(IF w.hist[s].subs # {}
                THEN _progress(w, s, browser, state, stop_status, beh)
                ELSE w,
                s + 1, browser, state, stop_status, beh)

\* ------------------------------------------------------------------ state
NoTab ==
    [ made |-> FALSE, leave_open |-> "undefined", tab |-> NULL, listener |-> NULL,
      browser |-> Undefined, error_code |-> Undefined, finally_f |-> NoFunction,
      catch_f |-> NoFunction, state |-> CREATED ]

\* n_go, n_finally: go() and finally_f invocations so far; closed: close() was
\* called; misuse: go() was invoked a second time, or after close(); subs: the
\* listeners that were registered with the host; setup_failed: a host call
\* threw in _show; stop_failed: <<status>> of the STOP with a failure status
\* that was accepted.
NoHist ==
    [ n_go |-> 0, n_finally |-> 0, closed |-> FALSE, misuse |-> FALSE, subs |-> {},
      setup_failed |-> FALSE, stop_failed |-> <<>> ]

NoOp ==
    [ op |-> "none", s |-> 0, browser |-> Undefined, state |-> {}, stop_status |-> 0,
      pre |-> CREATED, calls |-> <<>>, result |-> FALSE ]

World == [tabs |-> tabs, host |-> host, hist |-> hist, calls |-> <<>>]

\* The step that ends in world w, recorded as op.
Commit(w, op) ==
    /\ tabs' = w.tabs
    /\ host' = w.host
    /\ hist' = w.hist
    /\ lastOp' = [op EXCEPT !.calls = w.calls]

\* The caller (the crawler) treats every tab alike: it makes each one the same
\* way (new Browser_Tab( parent ), or make_tab with the same argument or none)
\* and passes go() the same callbacks, either of which it may leave out.  The
\* two choices are varied one at a time: a caller that uses make_tab passes
\* both callbacks.
Callers ==
    { c \in [ make : {"new", "absent", "true", "false"},
              finally_f : {NoFunction, Function},
              catch_f : {NoFunction, Function} ] :
        c.make = "new" \/ (c.finally_f = Function /\ c.catch_f = Function) }

Init ==
    /\ caller \in Callers
    /\ n_requests = Tabbed_Browser(MaxRequests).n_requests
    /\ max_requests = Tabbed_Browser(MaxRequests).max_requests
    /\ tabs = [s \in Tabs |-> NoTab]
    /\ host = [ listeners |-> {}, tabs |-> {},
                unsubscribed |-> [i \in Ids |-> 0], destroyed |-> [i \in Ids |-> 0] ]
    /\ hist = [s \in Tabs |-> NoHist]
    /\ go_count = 0
    /\ lastOp = NoOp

\* Browser_Tab objects are numbered in the order of their construction.
Fresh(s) == ~tabs[s].made /\ \A r \in Tabs : r < s => tabs[r].made

MakeTab(s) ==
    /\ Fresh(s)
    /\ caller.make # "new"
    /\ tabs' = [tabs EXCEPT ![s] = make_tab(caller.make)]
    /\ lastOp' = [NoOp EXCEPT !.op = "make_tab", !.s = s]
    /\ UNCHANGED <<caller, n_requests, max_requests, host, hist, go_count>>

\* new Browser_Tab( parent ): the constructor called with one argument.  (With
\* two arguments it is what make_tab does.)
NewBrowserTab(s) ==
    /\ Fresh(s)
    /\ caller.make = "new"
    /\ tabs' = [tabs EXCEPT ![s] = Browser_Tab(1, "undefined")]
    /\ lastOp' = [NoOp EXCEPT !.op = "new", !.s = s]
    /\ UNCHANGED <<caller, n_requests, max_requests, host, hist, go_count>>

\* Tabbed_Browser.prototype.close: an empty function.
GateClose == UNCHANGED vars

\* tabbed_browser.available(): the caller gets the result.
Available ==
    /\ lastOp' = [NoOp EXCEPT !.op = "available",
                              !.result = available(n_requests, max_requests)]
    /\ UNCHANGED <<caller, n_requests, max_requests, tabs, host, hist, go_count>>

\* tab.load( target ).go( finally_f, catch_f ).  The objects are interchangeable,
\* so the one with the lower number is taken to be loaded first.
Go(s, throwAt, immediate, cbeh, fbeh) ==
    /\ tabs[s].made
    /\ go_count < MaxGo
    /\ \A r \in Tabs : r < s => hist[r].n_go >= 1
    \* inputs that cannot matter are fixed: a STOP during addTab needs addTab to
    \* run, the body of a function matters only if the function is called
    /\ immediate = <<>> \/ throwAt \in {"none", "getBrowserForTab"}
    /\ cbeh = "noop" \/ (throwAt # "none" /\ caller.catch_f = Function)
    /\ fbeh = "noop" \/ (caller.finally_f = Function
                          /\ (throwAt # "none" \/ immediate # <<>>))
    /\ go_count' = go_count + 1
    /\ LET w0 == [World EXCEPT
                    !.hist[s].n_go = @ + 1,
                    !.hist[s].misuse = @ \/ hist[s].n_go >= 1 \/ hist[s].closed]
           w  == go(w0, s, caller.finally_f, caller.catch_f, Id(s, hist[s].n_go + 1),
                    throwAt, immediate, cbeh, fbeh)
       IN  Commit(w, [NoOp EXCEPT !.op = "go", !.s = s, !.pre = tabs[s].state])
    /\ UNCHANGED <<caller, n_requests, max_requests>>

\* The panes of the tabs that go() has asked the host for.
Panes == {getBrowserForTab(Id(s, k)) : s \in Tabs, k \in 1..MaxGo}

\* The host delivers one progress event.
Progress(browser, state, stop_status, beh) ==
    /\ \E s \in Tabs : hist[s].subs # {}
    /\ \E s \in Tabs : \E k \in 1..hist[s].n_go : browser = getBrowserForTab(Id(s, k))
    /\ is_stop(state) \/ stop_status = NS_OK
    /\ LET w == notify(World, 1, browser, state, stop_status, beh)
       IN  \* inputs that are not read are fixed: the status and the body of
           \* finally_f, when every listener drops the event
           /\ stop_status = NS_OK \/ w.tabs # tabs
           /\ beh = "noop" \/ w.calls # <<>>
           /\ Commit(w, [NoOp EXCEPT !.op = "progress", !.browser = browser,
                                     !.state = state, !.stop_status = stop_status])
    /\ UNCHANGED <<caller, n_requests, max_requests, go_count>>

\* tab.close()
Close(s) ==
    /\ tabs[s].made
    /\ Commit(close(World, s), [NoOp EXCEPT !.op = "close", !.s = s, !.pre = tabs[s].state])
    /\ UNCHANGED <<caller, n_requests, max_requests, go_count>>

Next ==
    \/ \E s \in Tabs : MakeTab(s)
    \/ \E s \in Tabs : NewBrowserTab(s)
    \/ GateClose
    \/ Available
    \/ \E s \in Tabs, throwAt \in ThrowPoints,
          immediate \in {<<>>} \cup {<<x>> : x \in StatusCodes},
          cbeh \in Behaviours, fbeh \in Behaviours :
            Go(s, throwAt, immediate, cbeh, fbeh)
    \/ \E browser \in Panes, state \in StateFlags,
          stop_status \in StatusCodes, beh \in Behaviours :
            Progress(browser, state, stop_status, beh)
    \/ \E s \in Tabs : Close(s)

Spec == Init /\ [][Next]_vars

\* The Tabbed_Browser by itself, with the crawler keeping its count of pending
\* requests: n_requests is a public field that no function of lib/browser.js
\* writes after construction; the crawler adds one when it starts a request
\* and takes one off when the request ends, within 0..max_requests.
Scheduler(d) ==
    /\ n_requests + d >= 0
    /\ n_requests + d <= max_requests
    /\ n_requests' = n_requests + d
    /\ lastOp' = [NoOp EXCEPT !.op = "scheduler"]
    /\ UNCHANGED <<caller, max_requests, tabs, host, hist, go_count>>

GateInit ==
    /\ caller = [make |-> "new", finally_f |-> NoFunction, catch_f |-> NoFunction]
    /\ \E c \in 1..MaxRequests :
          /\ n_requests = Tabbed_Browser(c).n_requests
          /\ max_requests = Tabbed_Browser(c).max_requests
    /\ tabs = [s \in Tabs |-> NoTab]
    /\ host = [ listeners |-> {}, tabs |-> {},
                unsubscribed |-> [i \in Ids |-> 0], destroyed |-> [i \in Ids |-> 0] ]
    /\ hist = [s \in Tabs |-> NoHist]
    /\ go_count = 0
    /\ lastOp = NoOp

GateNext ==
    \/ Available
    \/ GateClose
    \/ \E d \in {-1, 1} : Scheduler(d)

GateSpec == GateInit /\ [][GateNext]_vars

\* The host keeps its promise of the load: as long as a Browser_Tab waits for
\* the STOP of its pane, the host eventually delivers one.
OwnStop(s) ==
    /\ ~in_final_state(tabs[s])
    /\ \E state \in StateFlags, stop_status \in StatusCodes, beh \in Behaviours :
          /\ is_stop(state)
          /\ Progress(tabs[s].browser, state, stop_status, beh)

LiveSpec == Spec /\ \A s \in Tabs : WF_vars(OwnStop(s))

\* ----------------------------------------------------------------- claims
\* The calls of the last step made by Browser_Tab s to one of the functions fs,
\* each as <<function, argument, state of s at the call>>.
RECURSIVE CallsOf(_, _, _)
CallsOf(calls, s, fs) ==
    IF calls = <<>> THEN <<>>
    ELSE LET c == Head(calls)
         IN  (IF c.s = s /\ c.f \in fs THEN <<(<<c.f, c.arg, c.st>>)>> ELSE <<>>)
                \o CallsOf(Tail(calls), s, fs)

Callbacks == {"catch_f", "finally_f"}

\* An event of the host: pane, flags, status, and what finally_f does if called.
Events == Panes \X StateFlags \X StatusCodes \X Behaviours

Deliver(e) == notify(World, 1, e[1], e[2], e[3], e[4])

\* Browser_Tab s is as it was, and has called nothing, in world w.
Untouched(w, s) ==
    /\ w.tabs[s] = tabs[s]
    /\ w.hist[s] = hist[s]
    /\ \A i \in 1..Len(w.calls) : w.calls[i].s # s

\* go() has set Browser_Tab s up and s waits for the STOP of its pane.
Pending(s) == tabs[s].made /\ tabs[s].browser # Undefined /\ ~in_final_state(tabs[s])

\* C1 as stated: for any sequence of operations and notifications on a
\* Browser_Tab, finally_f is invoked at most once in total.
C1_FinallyAtMostOnce == \A s \in Tabs : hist[s].n_finally <= 1

\* C1, amended: finally_f is invoked at most once for each invocation of go(),
\* hence at most once in total on a Browser_Tab on which go() is invoked once,
\* however many STOP notifications arrive and whichever of a setup failure and
\* a STOP notification completed the load.
C1_FinallyAtMostOncePerGo == \A s \in Tabs : hist[s].n_finally <= hist[s].n_go

\* A second STOP for the pane of a displayed tab was delivered and dropped.
C1_Witness ==
    /\ lastOp.op = "progress" /\ STATE_STOP \in lastOp.state /\ lastOp.calls = <<>>
    /\ \E s \in Tabs :
          /\ lastOp.browser = tabs[s].browser
          /\ tabs[s].state = DISPLAYED
          /\ hist[s].n_go = 1 /\ hist[s].n_finally = 1

\* C2: if go() was invoked, setup succeeded, close() is never called and the
\* host eventually delivers a STOP for the tab's pane, the Browser_Tab reaches
\* DISPLAYED or ERROR and finally_f (if supplied) has been invoked exactly once.
C2_PendingLeadsToTerminal ==
    \A s \in Tabs :
        Pending(s)
            ~> \/ hist[s].closed
               \/ /\ tabs[s].state \in {DISPLAYED, ERROR}
                  /\ tabs[s].finally_f = Function => hist[s].n_finally = 1

\* The STOP of a pending tab was accepted: the tab is displayed, never closed.
C2_Witness ==
    /\ lastOp.op = "progress" /\ STATE_STOP \in lastOp.state /\ lastOp.stop_status = NS_OK
    /\ \E s \in Tabs :
          /\ lastOp.browser = tabs[s].browser
          /\ lastOp.calls = <<Call(s, "finally_f", "true", 0, DISPLAYED)>>
          /\ tabs[s].state = DISPLAYED /\ ~hist[s].closed
          /\ hist[s].n_go = 1 /\ hist[s].n_finally = 1

\* C3: once a Browser_Tab is closed (in particular while the load is pending),
\* no notification delivered afterwards invokes finally_f or catch_f on it, and
\* its state stays CLOSED.
C3_ClosedIgnoresNotifications ==
    \A s \in Tabs : tabs[s].state = CLOSED =>
        \A e \in Events : Untouched(Deliver(e), s) /\ Deliver(e).tabs[s].state = CLOSED

\* The STOP of its own pane was delivered to a tab closed while pending.
C3_Witness ==
    /\ lastOp.op = "progress" /\ STATE_STOP \in lastOp.state /\ lastOp.calls = <<>>
    /\ \E s \in Tabs :
          /\ lastOp.browser = tabs[s].browser
          /\ tabs[s].state = CLOSED /\ tabs[s].finally_f = Function
          /\ hist[s].n_go = 1 /\ hist[s].n_finally = 0 /\ hist[s].subs # {}

\* C4: a STOP for its own pane, received in a non-terminal state, takes the
\* Browser_Tab to DISPLAYED and calls finally_f(true) if the status is 0, and
\* otherwise to ERROR, records the status in error_code and calls
\* finally_f(false); finally_f (if supplied) is called exactly once.
C4_StopCompletes ==
    \A s \in Tabs : Pending(s) =>
        \A stop_status \in StatusCodes, beh \in Behaviours :
            LET w  == _progress(World, s, tabs[s].browser, {STATE_STOP}, stop_status, beh)
                cb == CallsOf(w.calls, s, Callbacks)
                ok == stop_status = 0
                to == IF ok THEN DISPLAYED ELSE ERROR
            IN  /\ cb = IF tabs[s].finally_f = Function
                        THEN <<(<<"finally_f", IF ok THEN "true" ELSE "false", to>>)>>
                        ELSE <<>>
                /\ w.tabs[s].state = IF cb # <<>> /\ beh = "close" THEN CLOSED ELSE to
                /\ w.tabs[s].error_code = IF ok THEN tabs[s].error_code ELSE <<stop_status>>

\* A pending tab got a STOP with a failure status.
C4_Witness ==
    /\ lastOp.op = "progress" /\ STATE_STOP \in lastOp.state /\ lastOp.stop_status # 0
    /\ \E s \in Tabs :
          /\ lastOp.browser = tabs[s].browser
          /\ lastOp.calls = <<Call(s, "finally_f", "false", 0, ERROR)>>
          /\ tabs[s].state = ERROR /\ tabs[s].error_code = <<lastOp.stop_status>>
          /\ hist[s].n_finally = 1

\* The host call of the last step that threw, if one did.
Threw(op) == \E i \in 1..Len(op.calls) : op.calls[i].arg = "throws"

\* C5: if a host call throws during setup inside go(), the Browser_Tab goes to
\* ERROR, the error is reported once, then catch_f(e) is called (if supplied),
\* then finally_f(false) (if supplied).
C5_SetupFailure ==
    (lastOp.op = "go" /\ Threw(lastOp)) =>
        LET s  == lastOp.s
            cb == CallsOf(lastOp.calls, s, Callbacks)
        IN  /\ CallsOf(lastOp.calls, s, {"reportError"}) = <<(<<"reportError", "e", ERROR>>)>>
            /\ \A i, j \in 1..Len(lastOp.calls) :
                  (lastOp.calls[i].f = "reportError" /\ lastOp.calls[j].f \in Callbacks)
                      => i < j
            /\ [i \in 1..Len(cb) |-> <<cb[i][1], cb[i][2]>>]
                 = (IF tabs[s].catch_f = Function THEN <<(<<"catch_f", "e">>)>> ELSE <<>>)
                   \o (IF tabs[s].finally_f = Function
                       THEN <<(<<"finally_f", "false">>)>> ELSE <<>>)
            /\ cb # <<>> => cb[1][3] = ERROR
            /\ tabs[s].state \in {ERROR, CLOSED}
            /\ tabs[s].state = CLOSED => hist[s].closed

\* addTab threw in go(), and both callbacks were supplied.
C5_Witness ==
    /\ lastOp.op = "go" /\ lastOp.pre = CREATED
    /\ \E i \in 1..Len(lastOp.calls) :
          lastOp.calls[i].f = "addTab" /\ lastOp.calls[i].arg = "throws"
    /\ tabs[lastOp.s].state = ERROR
    /\ tabs[lastOp.s].catch_f = Function /\ tabs[lastOp.s].finally_f = Function

\* Browser_Tab s has released everything: its fields are null and none of the
\* listeners it registered is still registered with the host.
Released(s) ==
    /\ tabs[s].listener = NULL
    /\ tabs[s].tab = NULL
    /\ host.listeners \cap hist[s].subs = {}

\* removeTab is among the calls.
Destroys(calls) == \E i \in 1..Len(calls) : calls[i].f = "removeTab"

\* C6 as stated: after close() has been called on a Browser_Tab, in every later
\* state its listener and tab fields are null and the host holds no listener
\* that it registered, whatever go, notifications and close calls came before
\* or come after.
C6_ClosedIsReleased == \A s \in Tabs : hist[s].closed => Released(s)

\* C6, amended: the same, for a Browser_Tab on which go() is invoked at most
\* once and not after close(); whatever notifications and close calls came
\* before or come after, the state is then CLOSED and everything is released.
C6_ClosedIsReleasedAfterOneGo ==
    \A s \in Tabs :
        (hist[s].closed /\ ~hist[s].misuse) => (tabs[s].state = CLOSED /\ Released(s))

\* close() has just released the listener of a tab that was loaded once.
C6_Witness ==
    /\ lastOp.op = "close" /\ lastOp.pre # CLOSED
    /\ LET s == lastOp.s
       IN  /\ hist[s].n_go = 1 /\ ~hist[s].misuse
           /\ lastOp.calls[1] = Call(s, "removeTabsProgressListener", "", Id(s, 1), lastOp.pre)
           /\ host.unsubscribed[Id(s, 1)] = 1
           /\ tabs[s].state = CLOSED

\* C7: on close() of a Browser_Tab that holds a tab, removeTab is invoked if
\* the Browser_Tab was made with leave_open = false, and is not invoked if it
\* was made with leave_open = true or with the argument left out, be it made
\* through make_tab or through the constructor.
C7_DestroysIffNotLeftOpen ==
    \A s \in Tabs :
        (tabs[s].tab # NULL /\ ~hist[s].misuse)
            => (Destroys(close(World, s).calls) <=> caller.make = "false")

\* C8: a second close() right after a first makes no host call and leaves
\* every field as it was; over any run each listener is removed from the host
\* at most once and each tab at most once.
C8_CloseIdempotent ==
    /\ \A s \in Tabs : tabs[s].made =>
          LET w1 == close(World, s)
              w2 == close([w1 EXCEPT !.calls = <<>>], s)
          IN  w2.calls = <<>> /\ w2.tabs = w1.tabs /\ w2.host = w1.host
    /\ \A i \in Ids : host.unsubscribed[i] <= 1 /\ host.destroyed[i] <= 1

\* close() was called on a tab closed before, whose listener and tab an
\* earlier close() had removed.
C8_Witness ==
    /\ lastOp.op = "close" /\ lastOp.pre = CLOSED /\ lastOp.calls = <<>>
    /\ host.unsubscribed[Id(lastOp.s, 1)] = 1
    /\ host.destroyed[Id(lastOp.s, 1)] = 1

\* C9: with several Browser_Tab objects, a progress event (of any kind) for a
\* pane other than the one a Browser_Tab resolved leaves its state, error
\* code, listener and tab unchanged and calls none of its callbacks.
C9_ForeignEventIgnored ==
    \A s \in Tabs : tabs[s].made =>
        \A e \in Events : e[1] # tabs[s].browser => Untouched(Deliver(e), s)

\* A STOP with a failure status completed one tab while another was pending.
C9_Witness ==
    /\ lastOp.op = "progress" /\ STATE_STOP \in lastOp.state /\ lastOp.stop_status # 0
    /\ \E r, s \in Tabs :
          /\ lastOp.browser = tabs[r].browser /\ tabs[r].state = ERROR
          /\ tabs[r].error_code = <<lastOp.stop_status>>
          /\ Pending(s) /\ tabs[s].browser # lastOp.browser

\* C10: a progress event for the Browser_Tab's own pane whose flags do not
\* include STATE_STOP changes nothing and calls no callback, in any state.
C10_NonStopIgnored ==
    \A s \in Tabs : tabs[s].browser # Undefined =>
        \A e \in Events :
            (e[1] = tabs[s].browser /\ STATE_STOP \notin e[2]) => Untouched(Deliver(e), s)

\* A pending tab got an event of its own pane that was not a STOP.
C10_Witness ==
    /\ lastOp.op = "progress" /\ STATE_STOP \notin lastOp.state /\ lastOp.calls = <<>>
    /\ \E s \in Tabs :
          /\ lastOp.browser = tabs[s].browser
          /\ Pending(s) /\ tabs[s].finally_f = Function

\* C11: for every capacity (1 included) and every count of pending requests,
\* available() returns true exactly when n_requests < max_requests, so false
\* when they are equal, and it changes nothing of the Tabbed_Browser or of any
\* Browser_Tab.
C11_AvailableIffSlot ==
    /\ [](lastOp.op = "available" =>
            /\ lastOp.result <=> max_requests - n_requests >= 1
            /\ n_requests = max_requests => ~lastOp.result)
    /\ [][lastOp'.op = "available" =>
            UNCHANGED <<n_requests, max_requests, tabs, host, hist>>]_vars

\* available() was called on a full Tabbed_Browser of capacity 1.
C11_Witness ==
    /\ lastOp.op = "available" /\ ~lastOp.result
    /\ max_requests = 1 /\ n_requests = 1

\* C12: the listener is registered before the tab is added, so a STOP for the
\* new tab that the host delivers while addTab runs is not lost: the
\* Browser_Tab accepts it and the load completes with a call of finally_f.
C12_ImmediateStopAccepted ==
    \A s \in Tabs : (tabs[s].made /\ in_initial_state(tabs[s]) /\ hist[s].n_go = 0) =>
        \A stop_status \in StatusCodes :
            LET w == go(World, s, caller.finally_f, caller.catch_f, Id(s, 1),
                        "none", <<stop_status>>, "noop", "noop")
            IN  /\ w.tabs[s].state = IF stop_status = NS_OK THEN DISPLAYED ELSE ERROR
                /\ caller.finally_f = Function
                      => Len(CallsOf(w.calls, s, {"finally_f"})) = 1

\* The listeners of Browser_Tab s registered with the host, and the tabs the
\* host has made for s (open, or removed since).
Registered(s) == host.listeners \cap hist[s].subs

Created(s) ==
    {i \in {Id(s, k) : k \in 1..MaxGo} : i \in host.tabs \/ host.destroyed[i] > 0}

DistinctHandles ==
    \A r, s \in Tabs : (r # s /\ tabs[r].tab # NULL) => tabs[r].tab # tabs[s].tab

\* C13 as stated: in every reachable state each Browser_Tab has at most one
\* listener registered with the host and at most one tab made for it, and no
\* two hold the same tab, for any sequence of go, notification and close.
C13_OneListenerOneTab ==
    /\ \A s \in Tabs : Cardinality(Registered(s)) <= 1 /\ Cardinality(Created(s)) <= 1
    /\ DistinctHandles

\* C13, amended: each Browser_Tab has at most one listener registered and at
\* most one tab made for it per invocation of go(), hence at most one of each
\* when go() is invoked at most once on it; no two hold the same tab.
C13_OneListenerOneTabPerGo ==
    /\ \A s \in Tabs : /\ Cardinality(Registered(s)) <= hist[s].n_go
                       /\ Cardinality(Created(s)) <= hist[s].n_go
    /\ DistinctHandles

\* Two tabs are loaded, each with its listener registered and its tab open.
C13_Witness ==
    \E r, s \in Tabs :
        /\ r # s /\ hist[r].n_go = 1 /\ hist[s].n_go = 1
        /\ Pending(r) /\ Pending(s)
        /\ Cardinality(Registered(r)) = 1 /\ Cardinality(Registered(s)) = 1
        /\ tabs[r].tab # NULL /\ tabs[s].tab # NULL
        /\ Cardinality(Created(r)) = 1 /\ Cardinality(Created(s)) = 1

\* C14: whenever the listener field is not null it is a listener registered
\* with the host, so close() only removes a listener that was registered,
\* also after addTabsProgressListener threw during setup.
C14_ListenerIsRegistered ==
    \A s \in Tabs : tabs[s].listener # NULL => tabs[s].listener \in host.listeners

\* C15: no operation of lib/browser.js (available, make_tab, Tabbed_Browser
\* close, load and go, progress handling, Browser_Tab close) changes
\* n_requests or max_requests, so 0 <= n_requests <= max_requests holds in
\* every state reached through these operations alone.
C15_GateUntouched ==
    /\ [](n_requests >= 0 /\ n_requests <= max_requests)
    /\ [][n_requests' = n_requests /\ max_requests' = max_requests]_vars

\* A tab was made, loaded, displayed and closed; the gate is as constructed.
C15_Witness ==
    /\ lastOp.op = "close" /\ lastOp.pre = DISPLAYED
    /\ hist[lastOp.s].n_go = 1
    /\ n_requests = 0 /\ max_requests = MaxRequests

\* C16 as stated: in every reachable state, if error_code is set then the
\* Browser_Tab went to ERROR through an accepted STOP with a failure status and
\* error_code is that status; a Browser_Tab that went to ERROR through a setup
\* failure has no error code.
C16_ErrorCodeFromFailedStop ==
    \A s \in Tabs :
        /\ tabs[s].error_code # Undefined =>
              (hist[s].stop_failed # <<>> /\ tabs[s].error_code = hist[s].stop_failed)
        /\ hist[s].setup_failed => tabs[s].error_code = Undefined

\* C16, amended: the first part as stated; a Browser_Tab on which go() was
\* invoked once and that went to ERROR through a setup failure has no error
\* code.
C16_ErrorCodeFromFailedStopOneGo ==
    \A s \in Tabs :
        /\ tabs[s].error_code # Undefined =>
              (hist[s].stop_failed # <<>> /\ tabs[s].error_code = hist[s].stop_failed)
        /\ (hist[s].setup_failed /\ hist[s].n_go <= 1) => tabs[s].error_code = Undefined

\* One tab failed in setup and has no error code; another got a failed STOP.
C16_Witness ==
    \E r, s \in Tabs :
        /\ hist[r].setup_failed /\ hist[r].n_go = 1
        /\ tabs[r].state = ERROR /\ tabs[r].error_code = Undefined
        /\ tabs[s].state = ERROR /\ tabs[s].error_code # Undefined
        /\ ~hist[s].setup_failed

\* C17: LOADING is never assigned: no Browser_Tab is ever in state LOADING, and
\* after a successful setup the state is still CREATED (in_initial_state) until
\* a STOP is accepted or close() is called.
C17_NeverLoading ==
    /\ \A s \in Tabs : tabs[s].state # LOADING
    /\ \A s \in Tabs :
          (hist[s].n_go >= 1 /\ ~in_final_state(tabs[s])) => in_initial_state(tabs[s])
    /\ (lastOp.op = "go" /\ ~Threw(lastOp) /\ lastOp.pre = CREATED)
          => in_initial_state(tabs[lastOp.s])

\* go() has just set a tab up, and the tab is in its initial state.
C17_Witness ==
    /\ lastOp.op = "go" /\ ~Threw(lastOp) /\ lastOp.pre = CREATED
    /\ Pending(lastOp.s) /\ tabs[lastOp.s].state = CREATED

\* C18: once a Browser_Tab is CLOSED no finally_f or catch_f of it is invoked
\* and the state stays CLOSED, whatever operation or notification follows,
\* also when close() was called from inside one of its own callbacks.
C18_NothingAfterClosed ==
    /\ \A i \in 1..Len(lastOp.calls) :
          lastOp.calls[i].f \in Callbacks => lastOp.calls[i].st # CLOSED
    /\ (lastOp.op \in {"go", "close"} /\ lastOp.pre = CLOSED)
          => tabs[lastOp.s].state = CLOSED

\* C19: at the moment finally_f or catch_f is invoked the state is final
\* (in_final_state), so a STOP delivered from inside the callback is dropped:
\* no step calls finally_f of a Browser_Tab twice.
C19_CallbackInFinalState ==
    /\ \A i \in 1..Len(lastOp.calls) :
          lastOp.calls[i].f \in Callbacks
              => in_final_state([state |-> lastOp.calls[i].st])
    /\ \A s \in Tabs : Len(CallsOf(lastOp.calls, s, {"finally_f"})) <= 1

\* catch_f and then finally_f were called in the catch block, in state ERROR.
C19_Witness ==
    \E i, j \in 1..Len(lastOp.calls) :
        /\ i < j
        /\ lastOp.calls[i].f = "catch_f" /\ lastOp.calls[i].st = ERROR
        /\ lastOp.calls[j].f = "finally_f" /\ lastOp.calls[j].st = ERROR

\* C20: a final state is never left for one that is not final: once
\* in_final_state holds for a Browser_Tab it holds in every later state, under
\* any sequence of go, notification and close.
C20_FinalStaysFinal ==
    [][\A s \in Tabs : tabs[s].state >= DISPLAYED => tabs'[s].state >= DISPLAYED]_vars

\* go() was invoked on a closed tab and set it up; the tab is still CLOSED.
C20_Witness ==
    /\ lastOp.op = "go" /\ lastOp.pre = CLOSED /\ ~Threw(lastOp)
    /\ tabs[lastOp.s].state = CLOSED /\ tabs[lastOp.s].tab # NULL

====
